---------------------------- MODULE Spec2Model ----------------------------
(***************************************************************************)
(* The HashMap assertions of spectral (src/hashmap.rs): has_length,        *)
(* contains_key and contains_key_with_value on a Spec<HashMap<K, V>>,      *)
(* instantiated at K = V = i32 as in the module's own tests.  A test body  *)
(* is a chain of assertion calls on one wrapper; a failing call panics and *)
(* ends the chain.                                                         *)
(***************************************************************************)
EXTENDS Integers, Sequences, FiniteSets, TLC

MaxKey == 2
MaxVal == 2
MaxLen == 3
MaxCalls == 3

VARIABLES test_map, spec, value_spec, value_key, status, panic_message,
          last, repeated, calls

vars == <<test_map, spec, value_spec, value_key, status, panic_message,
          last, repeated, calls>>

(* Option<T>: None, Some(x). *)
None == <<>>
Some(x) == <<x>>

Keys == 1..MaxKey
(* The keys a test looks up: every key a map may hold, and one that no map holds. *)
LookupKeys == Keys \cup {MaxKey + 1}
Values == {10 * v : v \in 1..MaxVal}
Descriptions == {None, Some("test map")}

(* ----- std: HashMap as the operations use it --------------------------- *)

(* Every order in which a map over the key set ks may iterate. *)
IterationOrders(ks) ==
    {o \in [1..Cardinality(ks) -> ks] : \A i, j \in DOMAIN o : o[i] = o[j] => i = j}

HashMaps ==
    UNION {{[entries |-> e, order |-> o] : e \in [ks -> Values], o \in IterationOrders(ks)}
           : ks \in SUBSET Keys}

HashMap_len(map) == Cardinality(DOMAIN map.entries)

HashMap_get(map, k) ==
    IF k \in DOMAIN map.entries THEN Some(map.entries[k]) ELSE None

HashMap_keys(map) == map.order

(* ----- std: formatting -------------------------------------------------- *)

Digits == <<"0", "1", "2", "3", "4", "5", "6", "7", "8", "9">>

RECURSIVE usize_display(_)
usize_display(n) ==
    IF n < 10 THEN Digits[n + 1]
    ELSE usize_display(n \div 10) \o Digits[(n % 10) + 1]

i32_debug(n) == IF n < 0 THEN "-" \o usize_display(-n) ELSE usize_display(n)

RECURSIVE debug_list(_)
debug_list(s) ==
    IF Len(s) = 0 THEN ""
    ELSE IF Len(s) = 1 THEN i32_debug(s[1])
    ELSE i32_debug(s[1]) \o ", " \o debug_list(Tail(s))

vec_debug(s) == "[" \o debug_list(s) \o "]"

(* ----- AssertionFailure ------------------------------------------------- *)

from_spec(s) == [description |-> s.description, expected |-> None, actual |-> None]

with_expected(f, text) == [f EXCEPT !.expected = Some(text)]

with_actual(f, text) == [f EXCEPT !.actual = Some(text)]

(* fail() as it would be if it left the description out of the message. *)
fail_without_description(f) ==
    "\n\texpected: " \o f.expected[1] \o "\n\t but was: " \o f.actual[1]

(* The message fail() panics with. *)
fail(f) ==
    (IF f.description = None THEN "" ELSE f.description[1] \o ": ")
        \o "\n\texpected: " \o f.expected[1] \o "\n\t but was: " \o f.actual[1]

(* ----- outcome of one call ---------------------------------------------- *)

(* The call returns normally: self as the call leaves it, and what it returns. *)
Returns(self, ret) ==
    [self |-> self, ret |-> ret, failures |-> <<>>, panic |-> None]

(* The call finalizes the failure f and unwinds. *)
Panics(self, f) ==
    [self |-> self, ret |-> None, failures |-> <<f>>, panic |-> Some(fail(f))]

(* ----- HashMapAssertions ------------------------------------------------ *)

(* has_length as it would be if the actual text rendered `expected`. *)
has_length_renders_expected(self, expected) ==
    LET subject == self.subject IN
    IF HashMap_len(subject) # expected
    THEN Panics(self,
                with_actual(
                    with_expected(from_spec(self),
                        "hashmap to have length <" \o usize_display(expected) \o ">"),
                    "<" \o usize_display(expected) \o ">"))
    ELSE Returns(self, None)

has_length(self, expected) ==
    LET subject == self.subject IN
    IF HashMap_len(subject) # expected
    THEN Panics(self,
                with_actual(
                    with_expected(from_spec(self),
                        "hashmap to have length <" \o usize_display(expected) \o ">"),
                    "<" \o usize_display(HashMap_len(subject)) \o ">"))
    ELSE Returns(self, None)

(* The failing branch of contains_key, shared by the variants below. *)
contains_key_failure(self, expected_key, listed) ==
    Panics(self,
           with_actual(
               with_expected(from_spec(self),
                   "hashmap to contain key <" \o i32_debug(expected_key) \o ">"),
               "<" \o vec_debug(listed) \o ">"))

(* contains_key as it would be if the returned Spec wrapped the key. *)
contains_key_wraps_key(self, expected_key) ==
    LET subject == self.subject
        found == HashMap_get(subject, expected_key)
    IN  IF found # None
        THEN Returns(self, Some([subject |-> expected_key, description |-> self.description]))
        ELSE contains_key_failure(self, expected_key, HashMap_keys(subject))

(* contains_key as it would be if it collected subject.values(). *)
contains_key_lists_values(self, expected_key) ==
    LET subject == self.subject
        found == HashMap_get(subject, expected_key)
    IN  IF found # None
        THEN Returns(self, Some([subject |-> found[1], description |-> self.description]))
        ELSE contains_key_failure(self, expected_key,
                 [i \in DOMAIN subject.order |-> subject.entries[subject.order[i]]])

(* contains_key as it would be if the returned Spec had `description: None`. *)
contains_key_drops_description(self, expected_key) ==
    LET subject == self.subject
        found == HashMap_get(subject, expected_key)
    IN  IF found # None
        THEN Returns(self, Some([subject |-> found[1], description |-> None]))
        ELSE contains_key_failure(self, expected_key, HashMap_keys(subject))

(* contains_key as it would be with `description: self.description.take()`. *)
contains_key_takes_description(self, expected_key) ==
    LET subject == self.subject
        found == HashMap_get(subject, expected_key)
    IN  IF found # None
        THEN Returns([self EXCEPT !.description = None],
                     Some([subject |-> found[1], description |-> self.description]))
        ELSE contains_key_failure(self, expected_key, HashMap_keys(subject))

(* contains_key as it would be if it wrapped the first value the map iterates. *)
contains_key_first_value(self, expected_key) ==
    LET subject == self.subject
        found == HashMap_get(subject, expected_key)
    IN  IF found # None
        THEN Returns(self, Some([subject |-> subject.entries[subject.order[1]],
                                 description |-> self.description]))
        ELSE contains_key_failure(self, expected_key, HashMap_keys(subject))

contains_key(self, expected_key) ==
    LET subject == self.subject
        found == HashMap_get(subject, expected_key)
    IN  IF found # None
        THEN Returns(self, Some([subject |-> found[1], description |-> self.description]))
        ELSE LET subject_keys == HashMap_keys(subject) IN
             Panics(self,
                    with_actual(
                        with_expected(from_spec(self),
                            "hashmap to contain key <" \o i32_debug(expected_key) \o ">"),
                        "<" \o vec_debug(subject_keys) \o ">"))

(* The two failing branches of contains_key_with_value, shared by the variants below. *)
contains_key_with_value_failure(self, expected_key, expected_value, actual) ==
    Panics(self,
           with_actual(
               with_expected(from_spec(self),
                   "hashmap containing key <" \o i32_debug(expected_key)
                       \o "> with value <" \o i32_debug(expected_value) \o ">"),
               actual))

(* contains_key_with_value as it would be if any entry holding the value satisfied it. *)
contains_key_with_value_any_key(self, expected_key, expected_value) ==
    LET subject == self.subject
        found == HashMap_get(subject, expected_key)
    IN  IF \E k \in DOMAIN subject.entries : subject.entries[k] = expected_value
        THEN Returns(self, None)
        ELSE IF found # None
        THEN contains_key_with_value_failure(self, expected_key, expected_value,
                 "key <" \o i32_debug(expected_key) \o "> with value <"
                     \o i32_debug(found[1]) \o "> instead")
        ELSE contains_key_with_value_failure(self, expected_key, expected_value,
                 "no matching key, keys are <" \o vec_debug(HashMap_keys(subject)) \o ">")

(* contains_key_with_value as it would be if the mismatch text rendered `expected_value`. *)
contains_key_with_value_shows_expected(self, expected_key, expected_value) ==
    LET subject == self.subject
        found == HashMap_get(subject, expected_key)
    IN  IF found # None
        THEN IF found[1] = expected_value
             THEN Returns(self, None)
             ELSE contains_key_with_value_failure(self, expected_key, expected_value,
                      "key <" \o i32_debug(expected_key) \o "> with value <"
                          \o i32_debug(expected_value) \o "> instead")
        ELSE contains_key_with_value_failure(self, expected_key, expected_value,
                 "no matching key, keys are <" \o vec_debug(HashMap_keys(subject)) \o ">")

(* contains_key_with_value as it would be if it ended without the last failure. *)
contains_key_with_value_returns_on_absent(self, expected_key, expected_value) ==
    LET subject == self.subject
        found == HashMap_get(subject, expected_key)
    IN  IF found # None
        THEN IF found[1] = expected_value
             THEN Returns(self, None)
             ELSE contains_key_with_value_failure(self, expected_key, expected_value,
                      "key <" \o i32_debug(expected_key) \o "> with value <"
                          \o i32_debug(found[1]) \o "> instead")
        ELSE Returns(self, None)

contains_key_with_value(self, expected_key, expected_value) ==
    LET expected_message ==
            "hashmap containing key <" \o i32_debug(expected_key)
                \o "> with value <" \o i32_debug(expected_value) \o ">"
        subject == self.subject
        found == HashMap_get(subject, expected_key)
    IN  IF found # None
        THEN IF found[1] = expected_value
             THEN Returns(self, None)
             ELSE Panics(self,
                         with_actual(
                             with_expected(from_spec(self), expected_message),
                             "key <" \o i32_debug(expected_key) \o "> with value <"
                                 \o i32_debug(found[1]) \o "> instead"))
        ELSE LET subject_keys == HashMap_keys(subject) IN
             Panics(self,
                    with_actual(
                        with_expected(from_spec(self), expected_message),
                        "no matching key, keys are <" \o vec_debug(subject_keys) \o ">"))

(* The equality assertion of the value wrapper. *)
is_equal_to(self, expected) ==
    IF self.subject = expected
    THEN Returns(self, None)
    ELSE Panics(self,
                with_actual(
                    with_expected(from_spec(self), "<" \o i32_debug(expected) \o ">"),
                    "<" \o i32_debug(self.subject) \o ">"))

(* ----- the test body ---------------------------------------------------- *)

Init ==
    /\ test_map \in HashMaps
    /\ \E d \in Descriptions : spec = [subject |-> test_map, description |-> d]
    /\ value_spec = None
    /\ value_key = None
    /\ status = "running"
    /\ panic_message = None
    /\ last = [op |-> "assert_that", key |-> None, value |-> None, len |-> None,
               ret |-> None, failures |-> <<>>]
    /\ repeated = FALSE
    /\ calls = 0

CanCall == status = "running" /\ calls < MaxCalls

(* What every call leaves behind in the test body. *)
Called(op, key, value, len, r) ==
    /\ last' = [op |-> op, key |-> key, value |-> value, len |-> len,
                ret |-> r.ret, failures |-> r.failures]
    /\ repeated' = (last.op = op /\ last.key = key /\ last.value = value /\ last.len = len)
    /\ status' = IF r.panic = None THEN "running" ELSE "panicked"
    /\ panic_message' = r.panic
    /\ calls' = calls + 1
    /\ UNCHANGED test_map

HasLength ==
    /\ CanCall
    /\ \E expected \in 0..MaxLen :
         LET r == has_length(spec, expected) IN
         /\ spec' = r.self
         /\ Called("has_length", None, None, Some(expected), r)
    /\ UNCHANGED <<value_spec, value_key>>

ContainsKey ==
    /\ CanCall
    /\ \E k \in LookupKeys :
         LET r == contains_key(spec, k) IN
         /\ spec' = r.self
         /\ value_spec' = r.ret
         /\ value_key' = IF r.ret = None THEN None ELSE Some(k)
         /\ Called("contains_key", Some(k), None, None, r)

ContainsKeyWithValue ==
    /\ CanCall
    /\ \E k \in LookupKeys, v \in Values :
         LET r == contains_key_with_value(spec, k, v) IN
         /\ spec' = r.self
         /\ Called("contains_key_with_value", Some(k), Some(v), None, r)
    /\ UNCHANGED <<value_spec, value_key>>

IsEqualTo ==
    /\ CanCall
    /\ value_spec # None
    /\ \E x \in Values :
         LET r == is_equal_to(value_spec[1], x) IN
         /\ value_spec' = Some(r.self)
         /\ Called("is_equal_to", value_key, Some(x), None, r)
    /\ UNCHANGED <<spec, value_key>>

Next == HasLength \/ ContainsKey \/ ContainsKeyWithValue \/ IsEqualTo

Spec == Init /\ [][Next]_vars

(* ----- what the properties below read ----------------------------------- *)

Entries == test_map.entries
Size == Cardinality(DOMAIN Entries)
Passed == status = "running" /\ last.failures = <<>>
Failed == status = "panicked" /\ Len(last.failures) = 1
Report == last.failures[1]

(* Every sequence of keys a listing in a message could render. *)
KeySeqs == UNION {[1..n -> Keys] : n \in 0..(MaxKey + 1)}

(* The key sequences whose rendering after `lead` is the text. *)
ListedKeys(lead, text) == {s \in KeySeqs : lead \o "<" \o vec_debug(s) \o ">" = text}

(* The text is `lead` followed by a listing of every key of the map exactly once
   and of no other key. *)
ListsAllKeys(lead, text) ==
    LET listed == ListedKeys(lead, text) IN
    /\ listed # {}
    /\ \A s \in listed :
         /\ \A i \in DOMAIN s : s[i] \in DOMAIN Entries
         /\ \A k \in DOMAIN Entries : Cardinality({i \in DOMAIN s : s[i] = k}) = 1

(* The text has the value-mismatch form for some key and value. *)
IsMismatchText(text) ==
    \E k \in LookupKeys, v \in Values :
        text = "key <" \o i32_debug(k) \o "> with value <" \o i32_debug(v) \o "> instead"

(* C1: has_length(e) returns normally without a failure report iff the map's
   size is e; otherwise it fails with expected text "hashmap to have length <e>"
   and actual text "<n>" for the real size n. *)
C1_HasLength ==
    last.op = "has_length" =>
        LET e == last.len[1] IN
        /\ Passed <=> (Size = e)
        /\ Size # e =>
             /\ Failed
             /\ Report.expected = Some("hashmap to have length <" \o usize_display(e) \o ">")
             /\ Report.actual = Some("<" \o usize_display(Size) \o ">")

C1_Witness ==
    /\ last.op = "has_length" /\ Failed
    /\ Size = 2 /\ last.len[1] = 1
    /\ Report.actual = Some("<2>")

(* C2: contains_key(&k) with k present returns normally with a new wrapper over
   the value stored under k that carries the description of the wrapper it was
   called on, and leaves that wrapper as it was. *)
C2_ContainsKeyPresent ==
    [][(last'.op = "contains_key" /\ calls' = calls + 1
            /\ last'.key[1] \in DOMAIN Entries)
        => /\ status' = "running" /\ last'.failures = <<>>
           /\ last'.ret = Some([subject |-> Entries[last'.key[1]],
                                description |-> spec.description])
           /\ value_spec' = last'.ret
           /\ spec' = spec]_vars

C2_Witness ==
    /\ last.op = "contains_key" /\ Passed
    /\ spec.description # None
    /\ value_spec = Some([subject |-> Entries[last.key[1]],
                          description |-> spec.description])

(* C3: contains_key(&k) with k absent (the empty map included) fails and returns
   no wrapper; the expected text is "hashmap to contain key <k>" and the actual
   text lists every key of the map exactly once and no other key. *)
C3_ContainsKeyAbsent ==
    (last.op = "contains_key" /\ last.key[1] \notin DOMAIN Entries) =>
        /\ Failed
        /\ last.ret = None
        /\ Report.expected = Some("hashmap to contain key <" \o i32_debug(last.key[1]) \o ">")
        /\ ListsAllKeys("", Report.actual[1])

C3_Witness ==
    /\ last.op = "contains_key" /\ Failed
    /\ Size = 2
    /\ last.key[1] \notin DOMAIN Entries

(* C4: contains_key_with_value(&k, &v) passes iff the map has an entry for k
   whose value equals v; a v stored only under another key does not satisfy it. *)
C4_KeyWithValue ==
    last.op = "contains_key_with_value" =>
        LET k == last.key[1]
            v == last.value[1]
        IN  Passed <=> (k \in DOMAIN Entries /\ Entries[k] = v)

C4_Witness ==
    /\ last.op = "contains_key_with_value" /\ Failed
    /\ last.key[1] \in DOMAIN Entries
    /\ \E k2 \in DOMAIN Entries : k2 # last.key[1] /\ Entries[k2] = last.value[1]

(* C5: a failing contains_key_with_value(&k, &v) has expected text "hashmap
   containing key <k> with value <v>" and exactly one of two actual texts:
   "no matching key, keys are <keys of the map>" when k is absent, "key <k> with
   value <v'> instead" with the stored value v' when k is present. *)
C5_KeyWithValueFailure ==
    (last.op = "contains_key_with_value" /\ ~Passed) =>
        LET k == last.key[1]
            v == last.value[1]
            absentText == ListsAllKeys("no matching key, keys are ", Report.actual[1])
        IN  /\ Failed
            /\ Report.expected = Some("hashmap containing key <" \o i32_debug(k)
                                      \o "> with value <" \o i32_debug(v) \o ">")
            /\ k \notin DOMAIN Entries => absentText /\ ~IsMismatchText(Report.actual[1])
            /\ k \in DOMAIN Entries =>
                 /\ Entries[k] # v
                 /\ Report.actual = Some("key <" \o i32_debug(k) \o "> with value <"
                                         \o i32_debug(Entries[k]) \o "> instead")
                 /\ ~absentText

C5_Witness ==
    /\ last.op = "contains_key_with_value" /\ Failed
    /\ last.key[1] \in DOMAIN Entries
    /\ Entries[last.key[1]] = 20 /\ last.value[1] = 10
    /\ Report.actual = Some("key <1> with value <20> instead")

(* The condition the last call of the three map assertions asserts, read off
   the map itself. *)
ConditionHolds ==
    CASE last.op = "has_length" -> Size = last.len[1]
      [] last.op = "contains_key" -> last.key[1] \in DOMAIN Entries
      [] last.op = "contains_key_with_value" ->
            /\ last.key[1] \in DOMAIN Entries
            /\ Entries[last.key[1]] = last.value[1]
      [] OTHER -> TRUE

MapAssertions == {"has_length", "contains_key", "contains_key_with_value"}

(* A failure with both texts set. *)
Finalized(f) == f.expected # None /\ f.actual # None

AfterMapAssertion ==
    last.op \in MapAssertions =>
        IF ConditionHolds
        THEN last.failures = <<>> /\ status = "running" /\ panic_message = None
        ELSE /\ Len(last.failures) = 1 /\ Finalized(last.failures[1])
             /\ status = "panicked" /\ panic_message # None

(* C6: a map assertion whose condition does not hold builds exactly one failure
   report, finalizes it and unwinds, and nothing of the chain runs after it; one
   whose condition holds builds no report and returns. *)
C6_FailureAborts ==
    [][AfterMapAssertion' /\ (status = "panicked" => UNCHANGED vars)]_vars

C6_Witness ==
    /\ last.op = "contains_key_with_value" /\ ~ConditionHolds
    /\ last.key[1] \notin DOMAIN Entries
    /\ status = "panicked" /\ calls = 2

(* The wrapper the last call was made on. *)
Asserting == IF last.op = "is_equal_to" THEN value_spec[1] ELSE spec

(* C7: the message of a failing call is "\n\texpected: <expected text>\n\t but
   was: <actual text>", the expected part first, prefixed with "<description>: "
   exactly when the wrapper the call was made on carries a description. *)
C7_MessageShape ==
    status = "panicked" =>
        /\ Failed
        /\ LET body == "\n\texpected: " \o Report.expected[1]
                           \o "\n\t but was: " \o Report.actual[1]
           IN  panic_message =
                   Some(IF Asserting.description = None
                        THEN body
                        ELSE Asserting.description[1] \o ": " \o body)
        /\ (last.op = "has_length" /\ Size = 2 /\ last.len[1] = 1) =>
               panic_message =
                   Some(IF spec.description = None
                        THEN "\n\texpected: hashmap to have length <1>\n\t but was: <2>"
                        ELSE "test map: \n\texpected: hashmap to have length <1>\n\t but was: <2>")

C7_Witness ==
    /\ status = "panicked" /\ last.op = "has_length"
    /\ spec.description = Some("test map")
    /\ panic_message =
           Some("test map: \n\texpected: hashmap to have length <1>\n\t but was: <2>")

(* C8: contains_key(&k) followed by an equality assertion against x is the
   equality assertion against x on a wrapper over the value stored under k with
   the parent's description: the same outcome, the same failure and the same
   message; with k absent the chain ends at contains_key and the equality
   assertion is never made. *)
C8_ChainedEquality ==
    /\ last.op = "is_equal_to" =>
         /\ value_key # None
         /\ value_key[1] \in DOMAIN Entries
         /\ LET direct == is_equal_to([subject |-> Entries[value_key[1]],
                                       description |-> spec.description],
                                      last.value[1])
            IN  /\ Passed <=> (Entries[value_key[1]] = last.value[1])
                /\ Passed <=> (direct.panic = None)
                /\ last.failures = direct.failures
                /\ panic_message = direct.panic
                /\ ~Passed => Report.description = spec.description
    /\ (last.op = "contains_key" /\ last.key[1] \notin DOMAIN Entries) =>
         status = "panicked" /\ value_spec = None

C8_Witness ==
    /\ last.op = "is_equal_to" /\ Failed
    /\ spec.description # None
    /\ Report.description = spec.description

(* C9: no call changes the map or the wrapper it is made on, and a call that
   repeats the passing call before it, with the same arguments, passes again. *)
C9_Frame ==
    /\ [](spec.subject = test_map)
    /\ [](repeated => Passed)
    /\ [][test_map' = test_map /\ spec' = spec]_vars

C9_Witness ==
    /\ repeated /\ Passed /\ calls = MaxCalls
    /\ last.op = "contains_key"
    /\ spec.description # None

(* The last map assertion, made on the wrapper s. *)
Again(s) ==
    CASE last.op = "has_length" -> has_length(s, last.len[1])
      [] last.op = "contains_key" -> contains_key(s, last.key[1])
      [] last.op = "contains_key_with_value" ->
            contains_key_with_value(s, last.key[1], last.value[1])

KeyAbsent ==
    /\ last.op \in {"contains_key", "contains_key_with_value"}
    /\ last.key[1] \notin DOMAIN Entries

Lead == IF last.op = "contains_key" THEN "" ELSE "no matching key, keys are "

(* C10: on a map with the same entries and any other iteration order, the last
   map assertion has the same outcome, returns the same wrapper and reports the
   same expected text and the same actual text, except that the actual text of
   a key-absent failure may list the same keys in another order. *)
C10_OrderIndependent ==
    last.op \in MapAssertions =>
        /\ (~Passed /\ KeyAbsent) => ListsAllKeys(Lead, Report.actual[1])
        /\ \A o \in IterationOrders(DOMAIN Entries) :
             LET other == Again([spec EXCEPT !.subject.order = o]) IN
             /\ (other.panic = None) <=> Passed
             /\ other.ret = last.ret
             /\ Len(other.failures) = Len(last.failures)
             /\ ~Passed =>
                  /\ other.failures[1].expected = Report.expected
                  /\ other.failures[1].description = Report.description
                  /\ IF KeyAbsent
                     THEN ListsAllKeys(Lead, other.failures[1].actual[1])
                     ELSE other.failures[1].actual = Report.actual

C10_Witness ==
    /\ KeyAbsent /\ Failed /\ Size = 2
    /\ \E o \in IterationOrders(DOMAIN Entries) :
         Again([spec EXCEPT !.subject.order = o]).failures[1].actual # Report.actual

=============================================================================
